---- MODULE Spec2Model ----
(***************************************************************************)
(* State machine of the tic-tac-toe front end (App.js): the state of the   *)
(* App component, the persisted user key, and the HTTP requests that are   *)
(* outstanding.  One action per user interaction and per completed         *)
(* request.  State updates issued by one handler are committed together    *)
(* (React batches them), and the effects that depend on the changed state  *)
(* ([user], [gameId]) run as part of the same step.                        *)
(*                                                                         *)
(* JavaScript values: null/undefined is Null; an array is a sequence, the  *)
(* JS index i being position i+1; an absent object (user, game) is the     *)
(* record whose fields are all absent; an absent win line is << >>.        *)
(***************************************************************************)
EXTENDS Bags, FiniteSets, Integers, Sequences, TLC

VARIABLES user, authError, authLoading, gameId, game, playing, board,
          winLine, fetching, msg, result, history, storage, pending, lastCall

vars == <<user, authError, authLoading, gameId, game, playing, board,
          winLine, fetching, msg, result, history, storage, pending, lastCall>>

\* ------------------------------------------------------------ bounds
\* Requests that may be outstanding at once.
MaxPending == 2

\* ------------------------------------------------------------ values
Null == "null"
NoLine == << >>
NoUser == [id |-> Null, username |-> Null]
NoGame == [id |-> Null, stateIsArray |-> FALSE, state |-> << >>,
           next |-> Null, winner |-> Null, win_line |-> NoLine]

BoardSize == 9
emptyBoard == [i \in 1..BoardSize |-> Null]

\* Mutant: the columns enumerated before the rows.
WIN_LINES_ColumnsFirst == << <<0,3,6>>, <<1,4,7>>, <<2,5,8>>,
                            <<0,1,2>>, <<3,4,5>>, <<6,7,8>>,
                            <<0,4,8>>, <<2,4,6>> >>

WIN_LINES == << <<0,1,2>>, <<3,4,5>>, <<6,7,8>>,
               <<0,3,6>>, <<1,4,7>>, <<2,5,8>>,
               <<0,4,8>>, <<2,4,6>> >>

\* board[i] of JavaScript: undefined outside the array.
At(b, i) == IF (i + 1) \in DOMAIN b THEN b[i + 1] ELSE Null

Truthy(v) == v # Null

\* ------------------------------------------------------------ getWinLine
\* Mutant: the third cell of the line is not compared.
LineMatchesFirstTwo(b, line) ==
    /\ Truthy(At(b, line[1]))
    /\ At(b, line[1]) = At(b, line[2])

\* Mutant: three empty cells count as a line (the board[a] && test dropped).
LineMatchesEmpty(b, line) ==
    /\ At(b, line[1]) = At(b, line[2])
    /\ At(b, line[1]) = At(b, line[3])

\* board[a] && board[a] === board[b] && board[a] === board[c]
LineMatches(b, line) ==
    /\ Truthy(At(b, line[1]))
    /\ At(b, line[1]) = At(b, line[2])
    /\ At(b, line[1]) = At(b, line[3])

RECURSIVE ScanLines(_, _)
ScanLines(b, k) ==
    IF k > Len(WIN_LINES) THEN NoLine
    ELSE IF LineMatches(b, WIN_LINES[k]) THEN WIN_LINES[k]
    ELSE ScanLines(b, k + 1)

\* getWinLine of an array; getWinLine of a missing state throws (GetWinLineThrows).
getWinLine(b) == ScanLines(b, 1)

\* board[a] on undefined or null raises a TypeError.
GetWinLineThrows(res) == ~res.stateIsArray

\* ------------------------------------------------------------ the backend
GameIds == {"g1", "g2"}
Usernames == {"ann"}

\* GET /users/{id}/games: no game yet, or both games.
ServerHistories == {{}, GameIds}

InProgress == <<"X", Null, Null, Null, "O", Null, Null, Null, Null>>
XWins == <<"X", "X", "X", "O", "O", Null, Null, Null, Null>>
DrawBoard == <<"X", "O", "X", "O", "X", "O", "O", "X", "O">>
ShortBoard == <<"X">>

NoState == << >>

\* What a backend may answer: [isArray, state, winner, win_line].  A game
\* without a move; a game in progress; a win without its line; a draw; a
\* body without state; an array of the wrong length; a winner with neither
\* state nor line; a winner with a line but no state.
ServerBodies ==
    { <<TRUE, emptyBoard, Null, NoLine>>,
      <<TRUE, InProgress, Null, NoLine>>,
      <<TRUE, XWins, "X", NoLine>>,
      <<TRUE, DrawBoard, "draw", NoLine>>,
      <<FALSE, NoState, Null, NoLine>>,
      <<TRUE, ShortBoard, Null, NoLine>>,
      <<FALSE, NoState, "X", NoLine>>,
      <<FALSE, NoState, "X", <<0,1,2>> >> }

\* POST /games answers with a game nobody has moved in yet.
NewGameBodies == {body \in ServerBodies : body[3] = Null /\ body[2] # InProgress}

CountOf(b, m) == Cardinality({i \in DOMAIN b : b[i] = m})
NextOf(b) == IF CountOf(b, "X") = CountOf(b, "O") THEN "X" ELSE "O"

\* The game-state bodies a backend may answer with, for the game `id`.
Response(id, body) ==
    [id |-> id, stateIsArray |-> body[1], state |-> body[2],
     next |-> IF body[1] THEN NextOf(body[2]) ELSE Null,
     winner |-> body[3], win_line |-> body[4]]

GameResponses(id) == {Response(id, body) : body \in ServerBodies}
NewGameResponses(id) == {Response(id, body) : body \in NewGameBodies}

\* res.state && Array.isArray(res.state) ? res.state : [...emptyBoard]
BoardOf(res) == IF res.stateIsArray THEN res.state ELSE emptyBoard

\* res.winner ? (res.winner === 'draw' ? 'draw' : res.winner) : null
ResultOf(res) == IF Truthy(res.winner)
                 THEN (IF res.winner = "draw" THEN "draw" ELSE res.winner)
                 ELSE Null

\* user?.id || user?.username
PlayerOf(u) == IF Truthy(u.id) THEN u.id ELSE u.username

\* ------------------------------------------------------------ localStorage
\* The value under 'ttt-user': a JSON text, here the sequence of its
\* key/value pairs; no key stored is NoItem (getItem returns null).
NoItem == << >>

\* JSON.stringify(res): a field that is undefined is left out.
stringify(u) ==
    (IF Truthy(u.id) THEN << <<"id", u.id>> >> ELSE << >>) \o
    (IF Truthy(u.username) THEN << <<"username", u.username>> >> ELSE << >>)

\* The value of `key` in a JSON text, undefined when absent.
Field(text, key) ==
    IF \E k \in DOMAIN text : text[k][1] = key
    THEN text[CHOOSE k \in DOMAIN text : text[k][1] = key][2]
    ELSE Null

\* JSON.parse(localStorage.getItem('ttt-user')): null without the key.
parse(text) ==
    IF text = NoItem THEN NoUser
    ELSE [id |-> Field(text, "id"), username |-> Field(text, "username")]

\* ------------------------------------------------------------ requests
Req(kind, id, idx, player) ==
    [kind |-> kind, id |-> id, idx |-> idx, player |-> player]

Send(bag, r) == bag (+) SetToBag({r})
Done(bag, r) == bag (-) SetToBag({r})

Outstanding == BagCardinality(pending)
CanSend == Outstanding < MaxPending

\* The handler that ran last and the response body it applied (NoGame when it
\* applied none).
Call(op, res) == [op |-> op, res |-> res]

\* ------------------------------------------------------------ Init
Init ==
    /\ user = NoUser
    /\ authError = ""
    /\ authLoading = FALSE
    /\ gameId = Null
    /\ game = NoGame
    /\ playing = FALSE
    /\ board = emptyBoard
    /\ winLine = NoLine
    /\ fetching = FALSE
    /\ msg = ""
    /\ result = Null
    /\ history = {}
    /\ storage = NoItem
    /\ pending = EmptyBag
    /\ lastCall = Call("init", NoGame)

\* ------------------------------------------------------------ rendering
\* Mutant: the board stays enabled while a request is outstanding.
BoardDisabledIgnoresFetching == ~playing \/ Truthy(result)

\* GameBoard's disabled prop: !playing || fetching || !!result
BoardDisabled == ~playing \/ fetching \/ Truthy(result)

\* A cell's button: disabled={disabled || !!cell}
CellDisabled(i) == BoardDisabled \/ Truthy(At(board, i))

\* onPlay={playing ? playMove : null}; the click runs onPlay && onPlay(idx)
OnPlayBound == playing

\* The signed-in view (navbar, history, board) is rendered only with a user.
SignedIn == user # NoUser

\* "+ New Game" is disabled while fetching; the result overlay's "New Game"
\* button is rendered whenever result is set and is never disabled.
NewGameClickable == ~fetching \/ Truthy(result)

\* useEffect(() => { if (gameId) fetchGame(gameId) }, [gameId])
GameIdEffectFires(newId) == newId # gameId /\ Truthy(newId)

\* ------------------------------------------------------------ authentication
handleAuth(username, route) ==
    /\ ~SignedIn
    /\ ~authLoading
    /\ CanSend
    /\ authLoading' = TRUE
    /\ authError' = ""
    /\ pending' = Send(pending, Req(route, Null, -1, username))
    /\ lastCall' = Call("handleAuth", NoGame)
    /\ UNCHANGED <<user, gameId, game, playing, board, winLine, fetching,
                   msg, result, history, storage>>

\* The backend's user record, or on any failure {id: username, username}.
ServerUser(username) == [id |-> "u7", username |-> username]
FallbackUser(username) == [id |-> username, username |-> username]

\* Mutant: a failed login or signup is reported and creates no session.
AuthDoneFailsOutright(r, ok) ==
    /\ BagIn(r, pending)
    /\ r.kind \in {"login", "signup"}
    /\ IF ok
       THEN /\ user' = ServerUser(r.player)
            /\ storage' = stringify(ServerUser(r.player))
            /\ pending' = Send(Done(pending, r),
                               Req("history", Null, -1,
                                   PlayerOf(ServerUser(r.player))))
            /\ msg' = "Loading match history..."
            /\ UNCHANGED authError
       ELSE /\ authError' = "Auth failed"
            /\ pending' = Done(pending, r)
            /\ UNCHANGED <<user, storage, msg>>
    /\ authLoading' = FALSE
    /\ lastCall' = Call(IF ok THEN "authDone" ELSE "authFallback", NoGame)
    /\ UNCHANGED <<gameId, game, playing, board, winLine, fetching, result,
                   history>>

\* The request of handleAuth completes; setUser(res) fires the [user] effect,
\* which calls fetchMatchHistory.
AuthDone(r, ok) ==
    /\ BagIn(r, pending)
    /\ r.kind \in {"login", "signup"}
    /\ LET res == IF ok THEN ServerUser(r.player) ELSE FallbackUser(r.player)
       IN /\ user' = res
          /\ storage' = stringify(res)
          /\ pending' = Send(Done(pending, r),
                             Req("history", Null, -1, PlayerOf(res)))
    /\ authLoading' = FALSE
    /\ msg' = "Loading match history..."
    /\ lastCall' = Call(IF ok THEN "authDone" ELSE "authFallback", NoGame)
    /\ UNCHANGED <<authError, gameId, game, playing, board, winLine,
                   fetching, result, history>>

\* The Logout button: setUser(null); localStorage.removeItem('ttt-user')
Logout ==
    /\ SignedIn
    /\ user' = NoUser
    /\ storage' = NoItem
    /\ lastCall' = Call("logout", NoGame)
    /\ UNCHANGED <<authError, authLoading, gameId, game, playing, board,
                   winLine, fetching, msg, result, history, pending>>

\* ------------------------------------------------------------ match history
HistoryOk(r, games) ==
    /\ BagIn(r, pending)
    /\ r.kind = "history"
    /\ history' = games
    /\ pending' = Done(pending, r)
    /\ lastCall' = Call("historyOk", NoGame)
    /\ UNCHANGED <<user, authError, authLoading, gameId, game, playing,
                   board, winLine, fetching, msg, result, storage>>

HistoryErr(r) ==
    /\ BagIn(r, pending)
    /\ r.kind = "history"
    /\ msg' = "Failed to load history: API Error"
    /\ history' = {}
    /\ pending' = Done(pending, r)
    /\ lastCall' = Call("historyErr", NoGame)
    /\ UNCHANGED <<user, authError, authLoading, gameId, game, playing,
                   board, winLine, fetching, result, storage>>

\* ------------------------------------------------------------ startNewGame
\* Click on "+ New Game" or on the overlay's "New Game".
startNewGame ==
    /\ SignedIn
    /\ NewGameClickable
    /\ CanSend
    /\ msg' = "Creating game..."
    /\ fetching' = TRUE
    /\ pending' = Send(pending, Req("create", Null, -1, PlayerOf(user)))
    /\ lastCall' = Call("startNewGame", NoGame)
    /\ UNCHANGED <<user, authError, authLoading, gameId, game, playing,
                   board, winLine, result, history, storage>>

\* POST /games answered; a changed gameId fires fetchGame(gameId).
\* Mutant: the response of the create request leaves result as it was.
startNewGameOkKeepsResult(r, res) ==
    /\ BagIn(r, pending)
    /\ r.kind = "create"
    /\ gameId' = res.id
    /\ board' = BoardOf(res)
    /\ playing' = TRUE
    /\ winLine' = NoLine
    /\ IF GameIdEffectFires(res.id)
       THEN /\ msg' = "Loading game..."
            /\ fetching' = TRUE
            /\ pending' = Send(Done(pending, r), Req("load", res.id, -1, Null))
       ELSE /\ fetching' = FALSE
            /\ pending' = Done(pending, r)
            /\ UNCHANGED msg
    /\ lastCall' = Call("startNewGameOk", res)
    /\ UNCHANGED <<user, authError, authLoading, game, result, history,
                   storage>>

startNewGameOk(r, res) ==
    /\ BagIn(r, pending)
    /\ r.kind = "create"
    /\ gameId' = res.id
    /\ board' = BoardOf(res)
    /\ playing' = TRUE
    /\ result' = Null
    /\ winLine' = NoLine
    /\ IF GameIdEffectFires(res.id)
       THEN /\ msg' = "Loading game..."
            /\ fetching' = TRUE
            /\ pending' = Send(Done(pending, r), Req("load", res.id, -1, Null))
       ELSE /\ fetching' = FALSE
            /\ pending' = Done(pending, r)
            /\ UNCHANGED msg
    /\ lastCall' = Call("startNewGameOk", res)
    /\ UNCHANGED <<user, authError, authLoading, game, history, storage>>

startNewGameErr(r) ==
    /\ BagIn(r, pending)
    /\ r.kind = "create"
    /\ msg' = "Failed to create game: API Error"
    /\ fetching' = FALSE
    /\ pending' = Done(pending, r)
    /\ lastCall' = Call("startNewGameErr", NoGame)
    /\ UNCHANGED <<user, authError, authLoading, gameId, game, playing,
                   board, winLine, result, history, storage>>

\* ------------------------------------------------------------ joinGame
\* Click on a match-history item (never disabled).
joinGame(id) ==
    /\ SignedIn
    /\ id \in history
    /\ CanSend
    /\ msg' = "Joining game..."
    /\ fetching' = TRUE
    /\ pending' = Send(pending, Req("join", id, -1, Null))
    /\ lastCall' = Call("joinGame", NoGame)
    /\ UNCHANGED <<user, authError, authLoading, gameId, game, playing,
                   board, winLine, result, history, storage>>

joinGameOk(r, res) ==
    /\ BagIn(r, pending)
    /\ r.kind = "join"
    /\ gameId' = res.id
    /\ board' = BoardOf(res)
    /\ game' = res
    /\ playing' = TRUE
    /\ result' = Null
    /\ winLine' = NoLine
    /\ IF GameIdEffectFires(res.id)
       THEN /\ msg' = "Loading game..."
            /\ fetching' = TRUE
            /\ pending' = Send(Done(pending, r), Req("load", res.id, -1, Null))
       ELSE /\ fetching' = FALSE
            /\ pending' = Done(pending, r)
            /\ UNCHANGED msg
    /\ lastCall' = Call("joinGameOk", res)
    /\ UNCHANGED <<user, authError, authLoading, history, storage>>

\* Mutant: setFetching(false) only at the end of the try block.
joinGameErrKeepsFetching(r) ==
    /\ BagIn(r, pending)
    /\ r.kind = "join"
    /\ msg' = "Could not join: API Error"
    /\ pending' = Done(pending, r)
    /\ lastCall' = Call("joinGameErr", NoGame)
    /\ UNCHANGED <<user, authError, authLoading, gameId, game, playing,
                   board, winLine, fetching, result, history, storage>>

joinGameErr(r) ==
    /\ BagIn(r, pending)
    /\ r.kind = "join"
    /\ msg' = "Could not join: API Error"
    /\ fetching' = FALSE
    /\ pending' = Done(pending, r)
    /\ lastCall' = Call("joinGameErr", NoGame)
    /\ UNCHANGED <<user, authError, authLoading, gameId, game, playing,
                   board, winLine, result, history, storage>>

\* ------------------------------------------------------------ playMove
\* Mutant: the click marks the cell at once, before the backend answers.
playMoveOptimistic(i) ==
    /\ user # NoUser
    /\ (i + 1) \in DOMAIN board
    /\ ~CellDisabled(i)
    /\ OnPlayBound
    /\ CanSend
    /\ Truthy(gameId)
    /\ board' = [board EXCEPT ![i + 1] = "X"]
    /\ msg' = ""
    /\ fetching' = TRUE
    /\ pending' = Send(pending, Req("move", gameId, i, PlayerOf(user)))
    /\ lastCall' = Call("playMove", NoGame)
    /\ UNCHANGED <<user, authError, authLoading, gameId, game, playing,
                   winLine, result, history, storage>>

\* Click on cell i of the rendered board; playMove returns at once without a
\* game id or a user.
playMove(i) ==
    /\ SignedIn
    /\ (i + 1) \in DOMAIN board
    /\ ~CellDisabled(i)
    /\ OnPlayBound
    /\ CanSend
    /\ lastCall' = Call("playMove", NoGame)
    /\ IF ~Truthy(gameId) \/ user = NoUser
       THEN UNCHANGED <<msg, fetching, pending>>
       ELSE /\ msg' = ""
            /\ fetching' = TRUE
            /\ pending' = Send(pending, Req("move", gameId, i, PlayerOf(user)))
    /\ UNCHANGED <<user, authError, authLoading, gameId, game, playing,
                   board, winLine, result, history, storage>>

\* res.win_line || getWinLine(res.state) raises when both are missing.
WinLineThrows(res) == res.win_line = NoLine /\ GetWinLineThrows(res)
WinLineOf(res) == IF res.win_line # NoLine THEN res.win_line
                  ELSE getWinLine(res.state)

playMoveOk(r, res) ==
    /\ BagIn(r, pending)
    /\ r.kind = "move"
    /\ board' = BoardOf(res)
    /\ game' = res
    /\ IF Truthy(res.winner)
       THEN /\ result' = ResultOf(res)
            /\ IF WinLineThrows(res)
               THEN /\ msg' = "Move failed: TypeError"
                    /\ lastCall' = Call("playMoveErr", res)
                    /\ UNCHANGED <<winLine, playing>>
               ELSE /\ winLine' = WinLineOf(res)
                    /\ playing' = FALSE
                    /\ lastCall' = Call("playMoveOk", res)
                    /\ UNCHANGED msg
       ELSE /\ lastCall' = Call("playMoveOk", res)
            /\ UNCHANGED <<result, winLine, playing, msg>>
    /\ fetching' = FALSE
    /\ pending' = Done(pending, r)
    /\ UNCHANGED <<user, authError, authLoading, gameId, history, storage>>

playMoveErr(r) ==
    /\ BagIn(r, pending)
    /\ r.kind = "move"
    /\ msg' = "Move failed: API Error"
    /\ fetching' = FALSE
    /\ pending' = Done(pending, r)
    /\ lastCall' = Call("playMoveErr", NoGame)
    /\ UNCHANGED <<user, authError, authLoading, gameId, game, playing,
                   board, winLine, result, history, storage>>

\* ------------------------------------------------------------ fetchGame
fetchGameOk(r, res) ==
    /\ BagIn(r, pending)
    /\ r.kind = "load"
    /\ game' = res
    /\ board' = BoardOf(res)
    /\ result' = ResultOf(res)
    /\ IF WinLineThrows(res)
       THEN /\ msg' = "Load failed: TypeError"
            /\ lastCall' = Call("fetchGameErr", res)
            /\ UNCHANGED <<winLine, playing>>
       ELSE /\ winLine' = WinLineOf(res)
            /\ playing' = ~Truthy(res.winner)
            /\ lastCall' = Call("fetchGameOk", res)
            /\ UNCHANGED msg
    /\ fetching' = FALSE
    /\ pending' = Done(pending, r)
    /\ UNCHANGED <<user, authError, authLoading, gameId, history, storage>>

fetchGameErr(r) ==
    /\ BagIn(r, pending)
    /\ r.kind = "load"
    /\ msg' = "Load failed: API Error"
    /\ fetching' = FALSE
    /\ pending' = Done(pending, r)
    /\ lastCall' = Call("fetchGameErr", NoGame)
    /\ UNCHANGED <<user, authError, authLoading, gameId, game, playing,
                   board, winLine, result, history, storage>>

\* ------------------------------------------------------------ specification
Requests == BagToSet(pending)
\* The cells the user clicks: one the sample boards fill and one they leave
\* empty (the other cells behave as one of these two).
Cells == {0, 1}

Next ==
    \/ \E u \in Usernames, route \in {"login", "signup"} : handleAuth(u, route)
    \/ \E r \in Requests, ok \in BOOLEAN : AuthDone(r, ok)
    \/ Logout
    \/ \E r \in Requests, games \in ServerHistories : HistoryOk(r, games)
    \/ \E r \in Requests : HistoryErr(r)
    \/ startNewGame
    \/ \E r \in Requests, id \in GameIds :
          \E res \in NewGameResponses(id) : startNewGameOk(r, res)
    \/ \E r \in Requests : startNewGameErr(r)
    \/ \E id \in GameIds : joinGame(id)
    \/ \E r \in Requests : \E res \in GameResponses(r.id) : joinGameOk(r, res)
    \/ \E r \in Requests : joinGameErr(r)
    \/ \E i \in Cells : playMove(i)
    \/ \E r \in Requests : \E res \in GameResponses(r.id) : playMoveOk(r, res)
    \/ \E r \in Requests : playMoveErr(r)
    \/ \E r \in Requests : \E res \in GameResponses(r.id) : fetchGameOk(r, res)
    \/ \E r \in Requests : fetchGameErr(r)

Spec == Init /\ [][Next]_vars

\* ------------------------------------------------------------ page reload
\* Mutant: the reload starts signed out whatever is stored.
ReloadIgnoresStorage ==
    /\ user' = NoUser
    /\ authError' = ""
    /\ authLoading' = FALSE
    /\ gameId' = Null
    /\ game' = NoGame
    /\ playing' = FALSE
    /\ board' = emptyBoard
    /\ winLine' = NoLine
    /\ fetching' = FALSE
    /\ result' = Null
    /\ history' = {}
    /\ msg' = ""
    /\ pending' = EmptyBag
    /\ lastCall' = Call("reload", NoGame)
    /\ UNCHANGED storage

\* The page is loaded again: the component state is constructed anew, the
\* requests of the old page are dropped, and the mount effect reads
\* 'ttt-user'; a stored user fires the [user] effect (fetchMatchHistory).
Reload ==
    /\ user' = parse(storage)
    /\ authError' = ""
    /\ authLoading' = FALSE
    /\ gameId' = Null
    /\ game' = NoGame
    /\ playing' = FALSE
    /\ board' = emptyBoard
    /\ winLine' = NoLine
    /\ fetching' = FALSE
    /\ result' = Null
    /\ history' = {}
    /\ IF parse(storage) # NoUser
       THEN /\ msg' = "Loading match history..."
            /\ pending' = SetToBag({Req("history", Null, -1,
                                        PlayerOf(parse(storage)))})
       ELSE /\ msg' = ""
            /\ pending' = EmptyBag
    /\ lastCall' = Call("reload", NoGame)
    /\ UNCHANGED storage

NextReload == Next \/ Reload

SpecReload == Init /\ [][NextReload]_vars

\* ------------------------------------------------------------ getWinLine alone
\* Every array of nine cells over {empty, X, O}.
Marks == {"X", "O"}
AllBoards == [1..BoardSize -> Marks \cup {Null}]

\* The derivation applied to an arbitrary board: the board is the input, the
\* line it returns is left in winLine.
InitDerive ==
    /\ user = NoUser
    /\ authError = ""
    /\ authLoading = FALSE
    /\ gameId = Null
    /\ game = NoGame
    /\ playing = FALSE
    /\ board \in AllBoards
    /\ winLine = NoLine
    /\ fetching = FALSE
    /\ msg = ""
    /\ result = Null
    /\ history = {}
    /\ storage = NoItem
    /\ pending = EmptyBag
    /\ lastCall = Call("init", NoGame)

Derive ==
    /\ lastCall.op = "init"
    /\ winLine' = getWinLine(board)
    /\ lastCall' = Call("getWinLine", NoGame)
    /\ UNCHANGED <<user, authError, authLoading, gameId, game, playing,
                   board, fetching, msg, result, history, storage, pending>>

SpecDerive == InitDerive /\ [][Derive]_vars

\* ============================================================ properties
\* The eight triples and the matched ones, stated without the scan.
Triples == { <<0,1,2>>, <<3,4,5>>, <<6,7,8>>,
             <<0,3,6>>, <<1,4,7>>, <<2,5,8>>,
             <<0,4,8>>, <<2,4,6>> }

Occupied(b, t) ==
    /\ b[t[1] + 1] \in Marks
    /\ b[t[2] + 1] = b[t[1] + 1]
    /\ b[t[3] + 1] = b[t[1] + 1]

Matched(b) == {t \in Triples : Occupied(b, t)}

HasEmpty(b) == \E i \in DOMAIN b : b[i] = Null

Derived == lastCall.op = "getWinLine"

\* C7: on a board of nine cells where exactly one of the eight triples is
\* fully occupied by one mark, getWinLine returns that triple, whose cells
\* hold the mark.
C7_SingleLineReturned ==
    (Derived /\ Cardinality(Matched(board)) = 1) =>
        \E t \in Matched(board) :
            /\ winLine = t
            /\ At(board, winLine[1]) = board[t[1] + 1]
            /\ At(board, winLine[1]) \in Marks

\* Scenario 1: [X,X,X,-,-,-,-,-,-] gives the line [0,1,2] of X.
C7_Witness ==
    /\ Derived
    /\ board = <<"X", "X", "X", Null, Null, Null, Null, Null, Null>>
    /\ winLine = <<0,1,2>>

\* The enumeration order the claim names: rows, columns, diagonals.
ClaimedOrder == << <<0,1,2>>, <<3,4,5>>, <<6,7,8>>,
                  <<0,3,6>>, <<1,4,7>>, <<2,5,8>>,
                  <<0,4,8>>, <<2,4,6>> >>

\* C8: when several triples are fully matched, getWinLine returns the first
\* matched one in the order rows, columns, diagonals.
C8_FirstMatchWins ==
    (Derived /\ Cardinality(Matched(board)) >= 2) =>
        \E k \in 1..Len(ClaimedOrder) :
            /\ winLine = ClaimedOrder[k]
            /\ ClaimedOrder[k] \in Matched(board)
            /\ \A j \in 1..(k - 1) : ClaimedOrder[j] \notin Matched(board)

\* A row and a column matched at once: the row is returned.
C8_Witness ==
    /\ Derived
    /\ board = <<"X", "X", "X", "X", "O", "O", "X", "O", Null>>
    /\ Matched(board) = { <<0,1,2>>, <<0,3,6>> }
    /\ winLine = <<0,1,2>>

\* What getWinLine returns for an unfinished board without a line.
UnfinishedOutcome == getWinLine(InProgress)

\* C9: on a full board without a matched triple the derivation returns an
\* outcome (draw) that differs from the one of an unfinished board.
C9_DrawDistinguished ==
    (Derived /\ ~HasEmpty(board) /\ Matched(board) = {}) =>
        winLine # UnfinishedOutcome

\* C10: on a board with an empty cell and no matched triple getWinLine
\* returns no line.
C10_NoLineWhenUnfinished ==
    (Derived /\ HasEmpty(board) /\ Matched(board) = {}) => winLine = NoLine

\* Scenario 3: [X,-,-,-,O,-,-,-,-] gives no line.
C10_Witness ==
    /\ Derived
    /\ board = InProgress
    /\ HasEmpty(board)
    /\ winLine = NoLine

\* ------------------------------------------------------------ session
\* The move submissions outstanding for the game `id`.
MovesFor(id) ==
    LET moves == {r \in BagToSet(pending) : r.kind = "move" /\ r.id = id}
    IN BagCardinality([r \in moves |-> pending[r]])

\* C1: no two move submissions for the same game id are outstanding at once.
C1_OneMovePerGame == \A id \in GameIds : MovesFor(id) <= 1

\* This step sends a move submission for cell i.
MoveEmitted(i) ==
    \E r \in BagToSet(pending') :
        /\ r.kind = "move"
        /\ r.idx = i
        /\ CopiesIn(r, pending') > CopiesIn(r, pending)

\* C2: a cell emits a move only from a state where playing holds, no request
\* is in flight (fetching is false), no result is set and the cell is empty.
C2_MoveOnlyWhenEligible ==
    [][\A i \in 0..(BoardSize - 1) :
          MoveEmitted(i) =>
              /\ playing
              /\ ~fetching
              /\ result = Null
              /\ (i + 1) \in DOMAIN board
              /\ board[i + 1] = Null]_vars

\* A click on an empty cell of an enabled board has sent its move.
C2_Witness ==
    /\ lastCall.op = "playMove"
    /\ fetching
    /\ \E r \in BagToSet(pending) : r.kind = "move" /\ r.id = gameId

C4_LogoutDiscardsGame ==
    lastCall.op = "logout" =>
        /\ user = NoUser
        /\ gameId = Null
        /\ game = NoGame
        /\ board = [i \in 1..9 |-> Null]
        /\ result = Null
        /\ winLine = NoLine
        /\ ~playing

\* The handlers that applied a successful response.
Applied == lastCall.op \in {"startNewGameOk", "joinGameOk", "playMoveOk",
                            "fetchGameOk"}

\* C5: after a successful response with a non-empty winner has been applied,
\* result is that winner and playing is false.
C5_WinnerConcludes ==
    (Applied /\ lastCall.res.winner # Null) =>
        (result = lastCall.res.winner /\ ~playing)

\* The handlers that received a response body (the last two also when the
\* win line could not be derived from it).
Answered(call) ==
    \/ call.op \in {"startNewGameOk", "joinGameOk", "playMoveOk", "fetchGameOk"}
    \/ call.op \in {"playMoveErr", "fetchGameErr"} /\ call.res # NoGame

DerivedFrom(call) ==
    /\ call.res.win_line = NoLine
    /\ \/ call.op = "fetchGameOk"
       \/ call.op = "playMoveOk" /\ call.res.winner # Null

\* C11: the outcome derivation returns normally only for a board of nine
\* cells; for any other state it fails (InvalidBoardShape).
C11_DerivationRejectsBadShape ==
    DerivedFrom(lastCall) =>
        (lastCall.res.stateIsArray /\ Len(lastCall.res.state) = 9)

\* The requests of startNewGame, joinGame, playMove and fetchGame in a bag.
GameKinds == {"create", "join", "move", "load"}
GameRequests(bag) == {r \in BagToSet(bag) : r.kind \in GameKinds}
NoOfGameRequests(bag) ==
    BagCardinality([r \in GameRequests(bag) |-> bag[r]])

\* C12: while a request of startNewGame, joinGame, playMove or fetchGame
\* stays without a response, fetching, once true, stays true whatever else
\* happens.
C12_HungRequestKeepsDisabled ==
    [][(fetching /\ \E r \in GameRequests(pending) :
                       CopiesIn(r, pending') >= CopiesIn(r, pending))
          => fetching']_vars

\* The handler that ended in its catch branch on a failed request, and the
\* message it shows.
FailureMessage ==
    [startNewGameErr |-> "Failed to create game: API Error",
     joinGameErr |-> "Could not join: API Error",
     playMoveErr |-> "Move failed: API Error",
     fetchGameErr |-> "Load failed: API Error",
     historyErr |-> "Failed to load history: API Error"]

RequestFailed(call) == call.op \in DOMAIN FailureMessage /\ call.res = NoGame

\* C13: a failed create, join, move, load or history request ends with its
\* message in msg and sends no request again; and whenever no request of
\* startNewGame, joinGame, playMove or fetchGame is outstanding, fetching is
\* false.
C13_ErrorsSurfacedNotRetried ==
    [][/\ RequestFailed(lastCall') =>
             /\ msg' = FailureMessage[lastCall'.op]
             /\ BagCardinality(pending') = BagCardinality(pending) - 1
             /\ \A r \in BagToSet(pending') :
                    CopiesIn(r, pending') <= CopiesIn(r, pending)
       /\ NoOfGameRequests(pending') = 0 => ~fetching']_vars

\* A failed move, the only request outstanding, has left the board enabled
\* again with its message shown.
C13_Witness ==
    /\ lastCall = Call("playMoveErr", NoGame)
    /\ msg = "Move failed: API Error"
    /\ pending = EmptyBag
    /\ ~fetching
    /\ playing

\* ------------------------------------------------------------ session
\* The request of handleAuth that is answered in this step.
AuthRequests == {r \in BagToSet(pending) : r.kind \in {"login", "signup"}}

C15_LoginLeadsToIdle ==
    lastCall.op = "authDone" =>
        /\ user # NoUser
        /\ gameId = Null
        /\ ~playing
        /\ result = Null

\* C16: the response of a successful create request leaves playing true,
\* result null and winLine null, whatever the result was before; invoking
\* startNewGame in a concluded session, and the failure of the create
\* request in a concluded session, leave the session concluded.
C16_NewGameFromConcluded ==
    [][/\ lastCall'.op = "startNewGameOk" =>
             playing' /\ result' = Null /\ winLine' = NoLine
       /\ (lastCall'.op \in {"startNewGame", "startNewGameErr"}
             /\ result # Null) =>
             /\ result' = result
             /\ playing' = playing
             /\ winLine' = winLine
             /\ board' = board]_vars

\* A new game was created after a game that the server reported as won.
C16_Witness ==
    /\ lastCall.op = "startNewGameOk"
    /\ Truthy(game.winner)
    /\ playing
    /\ result = Null
    /\ winLine = NoLine

\* C17: the key 'ttt-user' holds the serialized user exactly when a user is
\* signed in, and a reload sets user to what the key holds and leaves the
\* key alone.
C17_StorageMirrorsSession ==
    [][/\ storage' = (IF user' = NoUser THEN NoItem ELSE stringify(user'))
       /\ (storage' = NoItem) <=> (user' = NoUser)
       /\ lastCall'.op = "reload" =>
             user' = parse(storage) /\ storage' = storage]_vars

\* The page was reloaded while signed in and the user came back from the key.
C17_Witness ==
    /\ lastCall.op = "reload"
    /\ user = [id |-> "u7", username |-> "ann"]
    /\ storage = << <<"id", "u7">>, <<"username", "ann">> >>

\* ------------------------------------------------------------ responses
\* playMove or fetchGame applied the response and returned normally.
AppliedByMoveOrLoad == lastCall.op \in {"playMoveOk", "fetchGameOk"}

\* C18: after playMove or fetchGame applies a response, winLine is the
\* response's win_line when it carries one, and getWinLine of the
\* response's state otherwise.
C18_WinLineFromResponse ==
    AppliedByMoveOrLoad =>
        winLine = (IF lastCall.res.win_line # NoLine
                   THEN lastCall.res.win_line
                   ELSE getWinLine(lastCall.res.state))

\* C19: after playMove or fetchGame applies a response, result is that
\* response's winner (null when absent).
C19_ResultIsServerWinner ==
    AppliedByMoveOrLoad => result = lastCall.res.winner

\* C20: fetching is true exactly when a request of startNewGame, joinGame,
\* playMove or fetchGame is outstanding.
C20_FetchingIffOutstanding ==
    fetching <=> (NoOfGameRequests(pending) > 0)

\* ------------------------------------------------------------ overlap
\* C21: when no request is outstanding and the last thing that happened was
\* playMove or fetchGame applying a response, that response, and with it
\* the game record and board shown, is of the game identified by gameId.
C21_ShownGameIsCurrent ==
    (pending = EmptyBag /\ AppliedByMoveOrLoad) =>
        (lastCall.res.id = gameId /\ game.id = gameId)

\* startNewGame, joinGame, playMove or fetchGame ended in its catch branch,
\* on a failed request or on the TypeError of getWinLine.
EndedInCatch(call) ==
    call.op \in {"startNewGameErr", "joinGameErr", "playMoveErr",
                 "fetchGameErr"}

\* C22: a handler that ends in its catch branch has changed none of gameId,
\* game, board, result, winLine and playing.
C22_CatchChangesOnlyMsg ==
    [][EndedInCatch(lastCall') =>
          UNCHANGED <<gameId, game, board, result, winLine, playing>>]_vars

\* C23: result is non-null only when playing is false.
C23_ResultExcludesPlaying == (result # Null) => ~playing

====
